---- MODULE Spec2Model ----
(***************************************************************************)
(* Model of minecraft.py, the PrismLauncher instance selector.             *)
(*                                                                         *)
(* One run of main() is a sequential walk over program positions (pc).     *)
(* The environment (filesystem, helper programs, terminal) answers each    *)
(* system call nondeterministically; every answer is recorded in a log so  *)
(* that what the program consulted, and in which order, is visible.        *)
(***************************************************************************)
EXTENDS Integers, Sequences, FiniteSets, TLC

VARIABLES
    platform,       \* sys.platform
    pc,             \* position of the run inside main()
    i,              \* loop index of the probe loop under way
    probes,         \* log of path.exists()/is_dir() calls and their answers
    helpers,        \* log of subprocess.run() calls and what came of them
    prism_exe,      \* main's prism_exe
    instances_dir,  \* main's instances_dir
    iterdir,        \* how instances_dir.iterdir() ended: "ok" or the OSError
    instances,      \* main's instances
    input,          \* how the input() read ended: "line", "eof", "interrupt"
    line,           \* the line input() returned
    selected,       \* main's selected
    stdout,         \* lines printed on standard output
    popens,         \* log of subprocess.Popen() calls and how each ended
    fault,          \* uncaught exception that ended the run, or "none"
    exitCode        \* exit status of the process once pc = "done"

vars == <<platform, pc, i, probes, helpers, prism_exe, instances_dir, iterdir,
          instances, input, line, selected, stdout, popens, fault, exitCode>>

\* argv of the children the run has started with subprocess.Popen()
spawned == LET ok == SelectSeq(popens, LAMBDA c : c.outcome = "ok")
           IN  [n \in 1..Len(ok) |-> ok[n].argv]

----------------------------------------------------------------------------
(* Bounds *)

MaxLineLen == 3
MaxEntries == 3

----------------------------------------------------------------------------
(* Values *)

None == "None"                 \* None where a str is expected
NonePath == [none |-> TRUE]    \* None where a Path is expected
Unset == [unset |-> TRUE]      \* a name main has not bound yet
Running == 0 - 1               \* the process has not exited yet

\* A pathlib.Path object wraps the text of a path; str() unwraps it.
Path(text) == [path |-> text]
str(p) == p.path

Home == "~"

WinExePaths ==
    << Path(Home \o "/AppData/Local/Programs/PrismLauncher/prismlauncher.exe"),
       Path("C:/Program Files/PrismLauncher/prismlauncher.exe"),
       Path("C:/Program Files (x86)/PrismLauncher/prismlauncher.exe") >>

LinuxExePaths ==
    << Path("/usr/bin/prismlauncher"),
       Path("/usr/local/bin/prismlauncher"),
       Path(Home \o "/.local/bin/prismlauncher"),
       Path("/var/lib/flatpak/exports/bin/org.prismlauncher.PrismLauncher"),
       Path(Home \o "/.local/share/flatpak/exports/bin/org.prismlauncher.PrismLauncher") >>

ExePaths(plat) == IF plat = "win32" THEN WinExePaths ELSE LinuxExePaths

InstPaths ==
    << Path(Home \o "/AppData/Roaming/PrismLauncher/instances"),
       Path(Home \o "/.local/share/PrismLauncher/instances"),
       Path(Home \o "/Library/Application Support/PrismLauncher/instances"),
       Path(Home \o "/.var/app/org.prismlauncher.PrismLauncher/data/PrismLauncher/instances"),
       Path("/var/lib/flatpak/app/org.prismlauncher.PrismLauncher/data/PrismLauncher/instances") >>

BinaryName(plat) == IF plat = "win32" THEN "prismlauncher.exe" ELSE "prismlauncher"

WhichArgv(plat) == << IF plat = "win32" THEN "where" ELSE "which", BinaryName(plat) >>

FlatpakArgv == << "flatpak", "info", "--show-location", "org.prismlauncher.PrismLauncher" >>

----------------------------------------------------------------------------
(* Text: str.strip() and int() *)

Whitespace == {" "}
Digits == {"0", "1", "2", "3", "4", "5", "6", "7", "8", "9"}
Alphabet == {" ", "-", "0", "1", "2", "a"}

Lines == UNION {[1..n -> Alphabet] : n \in 0..MaxLineLen}

DigitVal(c) ==
    CASE c = "0" -> 0 [] c = "1" -> 1 [] c = "2" -> 2 [] c = "3" -> 3
      [] c = "4" -> 4 [] c = "5" -> 5 [] c = "6" -> 6 [] c = "7" -> 7
      [] c = "8" -> 8 [] c = "9" -> 9

DigitChar(d) ==
    CASE d = 0 -> "0" [] d = 1 -> "1" [] d = 2 -> "2" [] d = 3 -> "3"
      [] d = 4 -> "4" [] d = 5 -> "5" [] d = 6 -> "6" [] d = 7 -> "7"
      [] d = 8 -> "8" [] d = 9 -> "9"

\* f"{n}" for a non-negative integer
RECURSIVE Dec(_)
Dec(n) == IF n < 10 THEN DigitChar(n) ELSE Dec(n \div 10) \o DigitChar(n % 10)

RECURSIVE LStrip(_)
LStrip(s) == IF s # <<>> /\ Head(s) \in Whitespace THEN LStrip(Tail(s)) ELSE s

RECURSIVE RStrip(_)
RStrip(s) ==
    IF s # <<>> /\ s[Len(s)] \in Whitespace
    THEN RStrip(SubSeq(s, 1, Len(s) - 1))
    ELSE s

Strip(s) == RStrip(LStrip(s))

\* the digits part of an int() literal: what follows the optional sign
IntBody(s) == IF s # <<>> /\ Head(s) \in {"+", "-"} THEN Tail(s) ELSE s

\* int(text) succeeds: optional surrounding whitespace, optional sign, then
\* decimal digits with single underscores allowed between digits
IntParses(text) ==
    LET b == IntBody(Strip(text))
    IN  /\ b # <<>>
        /\ \A n \in 1..Len(b) : b[n] \in Digits \cup {"_"}
        /\ b[1] \in Digits
        /\ b[Len(b)] \in Digits
        /\ \A n \in 1..(Len(b) - 1) : ~(b[n] = "_" /\ b[n + 1] = "_")

RECURSIVE DigitsValue(_, _)
DigitsValue(b, acc) ==
    IF b = <<>> THEN acc
    ELSE IF Head(b) = "_" THEN DigitsValue(Tail(b), acc)
    ELSE DigitsValue(Tail(b), 10 * acc + DigitVal(Head(b)))

\* int(text), defined when IntParses(text)
IntValue(text) ==
    LET s == Strip(text)
        v == DigitsValue(IntBody(s), 0)
    IN  IF Head(s) = "-" THEN 0 - v ELSE v

----------------------------------------------------------------------------
(* What the environment can answer *)

\* outcome of running a helper program: "absent" when the program itself
\* cannot be executed, else its return code and the lines of its stdout
WhichFound == "/opt/prismlauncher/bin/prismlauncher"
WhichResults ==
    { [rc |-> 1, out |-> <<>>],
      [rc |-> 0, out |-> <<>>],
      [rc |-> 0, out |-> <<WhichFound>>],
      [rc |-> 0, out |-> <<"", WhichFound, "/snap/bin/prismlauncher", "">>] }

FlatpakLocation == "/var/lib/flatpak/app/org.prismlauncher.PrismLauncher/x86_64/stable/active"
FlatpakResults ==
    { [rc |-> 1, out |-> <<>>],
      [rc |-> 0, out |-> <<FlatpakLocation>>] }

\* children of the instances directory, in iteration order
AllEntries ==
    << [name |-> "notes.txt", is_dir |-> FALSE],
       [name |-> "Alpha", is_dir |-> TRUE],
       [name |-> "Beta", is_dir |-> TRUE],
       [name |-> "Gamma", is_dir |-> TRUE],
       [name |-> "Delta", is_dir |-> TRUE] >>
Listings == {SubSeq(AllEntries, 1, n) : n \in 0..MaxEntries}

\* str.strip() of a multi-line text kept as its lines: blank lines at both
\* ends go away
RECURSIVE StripLines(_)
StripLines(out) ==
    IF out # <<>> /\ Head(out) = "" THEN StripLines(Tail(out))
    ELSE IF out # <<>> /\ out[Len(out)] = "" THEN StripLines(SubSeq(out, 1, Len(out) - 1))
    ELSE out

\* install_path / "files/bin/prismlauncher"
\* "-" * 50 and "=" * 50
RECURSIVE Rep(_, _)
Rep(c, n) == IF n = 0 THEN "" ELSE c \o Rep(c, n - 1)

JoinPath(p, rel) == IF p.path = "" THEN Path(rel) ELSE Path(p.path \o "/" \o rel)

Out(msg) == stdout' = Append(stdout, msg)

Crash(exc) == /\ fault' = exc
              /\ exitCode' = 1
              /\ pc' = "done"

Return == /\ pc' = "done"
          /\ exitCode' = 0
          /\ fault' = fault

----------------------------------------------------------------------------
(* The run *)

Init ==
    /\ platform \in {"win32", "linux"}
    /\ pc = "start"
    /\ i = 1
    /\ probes = <<>>
    /\ helpers = <<>>
    /\ prism_exe = Unset
    /\ instances_dir = Unset
    /\ iterdir = "none"
    /\ instances = <<>>
    /\ input = "none"
    /\ line = <<>>
    /\ selected = None
    /\ stdout = <<>>
    /\ popens = <<>>
    /\ fault = "none"
    /\ exitCode = Running

\* main: the two banner lines, then the call of find_prism_exe
MainStart ==
    /\ pc = "start"
    /\ stdout' = stdout \o <<"PrismLauncher Instance Selector", Rep("=", 50)>>
    /\ pc' = "exe_paths"
    /\ i' = 1
    /\ UNCHANGED <<platform, probes, helpers, prism_exe, instances_dir, iterdir,
                   instances, input, line, selected, popens, fault, exitCode>>

\* find_prism_exe: one turn of the loop over possible_paths
ProbeExePath ==
    /\ pc = "exe_paths"
    /\ IF i > Len(ExePaths(platform))
       THEN /\ pc' = "which"
            /\ UNCHANGED <<i, probes, prism_exe>>
       ELSE \E exists \in BOOLEAN :
              LET path == ExePaths(platform)[i] IN
              /\ probes' = Append(probes, [path |-> path, call |-> "exists", answer |-> exists])
              /\ IF exists
                 THEN /\ prism_exe' = path
                      /\ pc' = "inst_paths"
                      /\ i' = 1
                 ELSE /\ i' = i + 1
                      /\ UNCHANGED <<pc, prism_exe>>
    /\ UNCHANGED <<platform, helpers, instances_dir, iterdir, instances, input, line,
                   selected, stdout, popens, fault, exitCode>>

\* find_prism_exe: the test on the result of the command-resolution helper
WhichHit(result) == result.rc = 0 /\ StripLines(result.out) # <<>>

\* find_prism_exe: fallback on PATH, through `where` / `which`
RunWhich ==
    /\ pc = "which"
    /\ \/ /\ helpers' = Append(helpers, [argv |-> WhichArgv(platform), present |-> FALSE])
          /\ Crash("FileNotFoundError")      \* the helper cannot be executed
          /\ UNCHANGED <<i, prism_exe>>
       \/ \E result \in WhichResults :
            /\ helpers' = Append(helpers, [argv |-> WhichArgv(platform), present |-> TRUE,
                                           result |-> result])
            /\ IF WhichHit(result)
               THEN /\ prism_exe' = Path(StripLines(result.out)[1])
                    /\ pc' = "inst_paths"
                    /\ i' = 1
                    /\ UNCHANGED <<fault, exitCode>>
               ELSE /\ pc' = "flatpak"
                    /\ UNCHANGED <<i, prism_exe, fault, exitCode>>
    /\ UNCHANGED <<platform, probes, instances_dir, iterdir, instances, input, line,
                   selected, stdout, popens>>

\* find_prism_exe: fallback on the Flatpak install location; `return None`
\* when that yields nothing as well
RunFlatpak ==
    /\ pc = "flatpak"
    /\ \/ /\ helpers' = Append(helpers, [argv |-> FlatpakArgv, present |-> FALSE])
          /\ Crash("FileNotFoundError")      \* flatpak cannot be executed
          /\ UNCHANGED <<i, probes, prism_exe>>
       \/ \E result \in FlatpakResults, exists \in BOOLEAN :
            /\ helpers' = Append(helpers, [argv |-> FlatpakArgv, present |-> TRUE,
                                           result |-> result])
            /\ pc' = "inst_paths"
            /\ i' = 1
            /\ UNCHANGED <<fault, exitCode>>
            /\ IF result.rc = 0
               THEN LET install_path == Path(IF StripLines(result.out) = <<>>
                                             THEN "" ELSE StripLines(result.out)[1])
                        flatpak_bin == JoinPath(install_path, "files/bin/prismlauncher")
                    IN  /\ probes' = Append(probes, [path |-> flatpak_bin,
                                                     call |-> "exists", answer |-> exists])
                        /\ prism_exe' = IF exists THEN flatpak_bin ELSE NonePath
               ELSE /\ ~exists
                    /\ prism_exe' = NonePath
                    /\ UNCHANGED probes
    /\ UNCHANGED <<platform, instances_dir, iterdir, instances, input, line, selected,
                   stdout, popens>>

\* variant of InstHit: the is_dir() test left out
InstHit_ExistsOnly(exists, is_dir) == exists

\* find_instances_dir: the test a candidate has to pass
InstHit(exists, is_dir) == exists /\ is_dir

\* find_instances_dir: one turn of the loop over possible_paths; is_dir() is
\* asked only when exists() answered True
ProbeInstPath ==
    /\ pc = "inst_paths"
    /\ IF i > Len(InstPaths)
       THEN /\ instances_dir' = NonePath
            /\ pc' = "located"
            /\ UNCHANGED <<i, probes>>
       ELSE \E exists \in BOOLEAN, is_dir \in BOOLEAN :
              LET path == InstPaths[i] IN
              /\ exists \/ ~is_dir
              /\ probes' = probes
                     \o <<[path |-> path, call |-> "exists", answer |-> exists]>>
                     \o (IF exists
                         THEN <<[path |-> path, call |-> "is_dir", answer |-> is_dir]>>
                         ELSE <<>>)
              /\ IF InstHit(exists, is_dir)
                 THEN /\ instances_dir' = path
                      /\ pc' = "located"
                      /\ UNCHANGED i
                 ELSE /\ i' = i + 1
                      /\ UNCHANGED <<pc, instances_dir>>
    /\ UNCHANGED <<platform, helpers, prism_exe, iterdir, instances, input, line,
                   selected, stdout, popens, fault, exitCode>>

ExeError == "Error: Could not find PrismLauncher executable."
DirError == "Error: Could not find instances directory."

\* variant of MainLocated: the `return` after the directory error left out
MainLocated_NoReturn ==
    /\ pc = "located"
    /\ IF prism_exe = NonePath
       THEN /\ Out(ExeError)
            /\ Return
       ELSE IF instances_dir = NonePath
       THEN /\ Out(DirError)
            /\ pc' = "enumerate"
            /\ UNCHANGED <<fault, exitCode>>
       ELSE /\ stdout' = stdout \o <<"Found PrismLauncher at: " \o str(prism_exe),
                                     "Found instances at: " \o str(instances_dir) \o "\n">>
            /\ pc' = "enumerate"
            /\ UNCHANGED <<fault, exitCode>>
    /\ UNCHANGED <<platform, i, probes, helpers, prism_exe, instances_dir, iterdir,
                   instances, input, line, selected, popens>>

\* main: what follows the two locator calls, up to the call of get_instances
MainLocated ==
    /\ pc = "located"
    /\ IF prism_exe = NonePath
       THEN /\ Out(ExeError)
            /\ Return
       ELSE IF instances_dir = NonePath
       THEN /\ Out(DirError)
            /\ Return
       ELSE /\ stdout' = stdout \o <<"Found PrismLauncher at: " \o str(prism_exe),
                                     "Found instances at: " \o str(instances_dir) \o "\n">>
            /\ pc' = "enumerate"
            /\ UNCHANGED <<fault, exitCode>>
    /\ UNCHANGED <<platform, i, probes, helpers, prism_exe, instances_dir, iterdir,
                   instances, input, line, selected, popens>>

\* get_instances: the names of the children that are directories
RECURSIVE DirNames(_)
DirNames(entries) ==
    IF entries = <<>> THEN <<>>
    ELSE (IF Head(entries).is_dir THEN <<Head(entries).name>> ELSE <<>>)
         \o DirNames(Tail(entries))

\* main: get_instances and the test for an empty list
GetInstances ==
    /\ pc = "enumerate"
    /\ \/ /\ \E exc \in {"PermissionError", "FileNotFoundError"} :
                  /\ iterdir' = exc
                  /\ Crash(exc)
          /\ UNCHANGED <<instances, stdout>>
       \/ \E entries \in Listings :
            /\ iterdir' = "ok"
            /\ instances' = DirNames(entries)
            /\ IF instances' = <<>>
               THEN /\ Out("No instances found.")
                    /\ Return
               ELSE /\ pc' = "display"
                    /\ UNCHANGED <<stdout, fault, exitCode>>
    /\ UNCHANGED <<platform, i, probes, helpers, prism_exe, instances_dir,
                   input, line, selected, popens>>

RECURSIVE NumberedLines(_, _)
NumberedLines(insts, n) ==
    IF insts = <<>> THEN <<>>
    ELSE <<Dec(n) \o ". " \o Head(insts)>> \o NumberedLines(Tail(insts), n + 1)

DisplayInstances ==
    /\ pc = "display"
    /\ stdout' = stdout
          \o <<"Available Minecraft Instances (" \o Dec(Len(instances)) \o "):",
               Rep("-", 50)>>
          \o NumberedLines(instances, 1)
          \o <<Rep("-", 50), "Total: " \o Dec(Len(instances)) \o " instances">>
    /\ pc' = "prompt"
    /\ UNCHANGED <<platform, i, probes, helpers, prism_exe, instances_dir, iterdir,
                   instances, input, line, selected, popens, fault, exitCode>>

PromptText == "\nEnter a number to launch an instance: "

\* get_user_choice: input() writes the prompt and blocks on the read
Prompt ==
    /\ pc = "prompt"
    /\ Out(PromptText)
    /\ pc' = "reading"
    /\ UNCHANGED <<platform, i, probes, helpers, prism_exe, instances_dir, iterdir,
                   instances, input, line, selected, popens, fault, exitCode>>

\* variant of Choice: the index taken 0-based without the lower bound test
Choice_NoLowerBound(insts, text) ==
    LET idx == IntValue(Strip(text)) - 1
    IN  IF idx < Len(insts)
        THEN insts[IF idx >= 0 THEN idx + 1 ELSE ((idx % Len(insts)) + 1)]
        ELSE None

\* get_user_choice: the value returned for a line int() accepts
Choice(insts, text) ==
    LET idx == IntValue(Strip(text)) - 1
    IN  IF 0 <= idx /\ idx < Len(insts) THEN insts[idx + 1] ELSE None

InvalidInput == "Invalid input. Please enter a number."

\* variant of ReadLine: ValueError swallowed without a message
ReadLine_Silent ==
    /\ pc = "reading"
    /\ \E text \in Lines :
         /\ input' = "line"
         /\ line' = text
         /\ selected' = IF IntParses(Strip(text)) THEN Choice(instances, text) ELSE None
    /\ pc' = "chosen"
    /\ UNCHANGED <<platform, i, probes, helpers, prism_exe, instances_dir, iterdir,
                   instances, stdout, popens, fault, exitCode>>

\* get_user_choice: the read delivers a line
ReadLine ==
    /\ pc = "reading"
    /\ \E text \in Lines :
         /\ input' = "line"
         /\ line' = text
         /\ IF IntParses(Strip(text))
            THEN /\ selected' = Choice(instances, text)
                 /\ UNCHANGED stdout
            ELSE /\ Out(InvalidInput)          \* except ValueError
                 /\ selected' = None
    /\ pc' = "chosen"
    /\ UNCHANGED <<platform, i, probes, helpers, prism_exe, instances_dir, iterdir,
                   instances, popens, fault, exitCode>>

\* get_user_choice: the read meets end of input; EOFError has no handler
ReadEOF ==
    /\ pc = "reading"
    /\ input' = "eof"
    /\ Crash("EOFError")
    /\ UNCHANGED <<platform, i, probes, helpers, prism_exe, instances_dir, iterdir,
                   instances, line, selected, stdout, popens>>

InterruptExit == 0

\* variant of ReadInterrupt: the notice printed but sys.exit(0) left out
ReadInterrupt_NoExit ==
    /\ pc = "reading"
    /\ input' = "interrupt"
    /\ Out("\nExiting...")
    /\ pc' = "chosen"
    /\ UNCHANGED <<platform, i, probes, helpers, prism_exe, instances_dir, iterdir,
                   instances, line, selected, popens, fault, exitCode>>

\* get_user_choice: KeyboardInterrupt during the read
ReadInterrupt ==
    /\ pc = "reading"
    /\ input' = "interrupt"
    /\ Out("\nExiting...")
    /\ pc' = "done"
    /\ exitCode' = InterruptExit
    /\ UNCHANGED <<platform, i, probes, helpers, prism_exe, instances_dir, iterdir,
                   instances, line, selected, popens, fault>>

\* variant of LaunchArgv: the "--launch" directive left out
LaunchArgv_NoDirective(exe, instance_name) == <<str(exe), instance_name>>

\* launch_instance: the argv handed to subprocess.Popen
LaunchArgv(exe, instance_name) == <<str(exe), "--launch", instance_name>>

\* main: `if selected:` and launch_instance
MainSelected ==
    /\ pc = "chosen"
    /\ IF selected # None /\ selected # ""
       THEN /\ Out("Launching " \o selected \o "...")
            /\ \/ /\ popens' = Append(popens, [argv |-> LaunchArgv(prism_exe, selected),
                                                 outcome |-> "ok"])
                  /\ Return
               \/ \E exc \in {"PermissionError", "FileNotFoundError"} :
                    /\ popens' = Append(popens, [argv |-> LaunchArgv(prism_exe, selected),
                                                 outcome |-> exc])
                    /\ Crash(exc)
       ELSE /\ Return
            /\ UNCHANGED <<stdout, popens>>
    /\ UNCHANGED <<platform, i, probes, helpers, prism_exe, instances_dir, iterdir,
                   instances, input, line, selected>>

Next ==
    \/ MainStart
    \/ ProbeExePath
    \/ RunWhich
    \/ RunFlatpak
    \/ ProbeInstPath
    \/ MainLocated
    \/ GetInstances
    \/ DisplayInstances
    \/ Prompt
    \/ ReadLine
    \/ ReadEOF
    \/ ReadInterrupt
    \/ MainSelected

Spec == Init /\ [][Next]_vars

TypeOK ==
    /\ platform \in {"win32", "linux"}
    /\ exitCode \in {Running, 0, 1}
    /\ (pc = "done") = (exitCode # Running)
    /\ (fault # "none") = (exitCode = 1)
    /\ Len(popens) <= 1

----------------------------------------------------------------------------
(* Reading the logs *)

\* the environment answered True to path.exists()
SawExists(path) ==
    \E n \in 1..Len(probes) :
        probes[n].path = path /\ probes[n].call = "exists" /\ probes[n].answer

\* the environment answered True to path.exists() and to path.is_dir()
SawDir(path) ==
    /\ SawExists(path)
    /\ \E n \in 1..Len(probes) :
        probes[n].path = path /\ probes[n].call = "is_dir" /\ probes[n].answer

Consulted(path) == \E n \in 1..Len(probes) : probes[n].path = path

Min(S) == CHOOSE m \in S : \A n \in S : m <= n

Count(seq, x) == Cardinality({n \in 1..Len(seq) : seq[n] = x})

Last(seq) == seq[Len(seq)]

ExeReturned == prism_exe # Unset
DirReturned == instances_dir # Unset

\* a helper program was asked for and could not be executed
HelperAbsent(argv) ==
    \E n \in 1..Len(helpers) : helpers[n].argv = argv /\ ~helpers[n].present

\* the command-resolution helper ran and its answer names no executable
WhichFoundNothing ==
    /\ Len(helpers) >= 1
    /\ helpers[1].argv = WhichArgv(platform)
    /\ helpers[1].present
    /\ ~(helpers[1].result.rc = 0 /\ \E n \in 1..Len(helpers[1].result.out) :
                                         helpers[1].result.out[n] # "")

NoExeCandidateExists ==
    \A n \in 1..Len(ExePaths(platform)) :
        Consulted(ExePaths(platform)[n]) /\ ~SawExists(ExePaths(platform)[n])

\* exe is what one of the three stages of find_prism_exe came upon
Discovered(exe) ==
    \/ SawExists(exe)
    \/ /\ Len(helpers) >= 1
       /\ helpers[1].argv = WhichArgv(platform)
       /\ helpers[1].present
       /\ helpers[1].result.rc = 0
       /\ \E m \in 1..Len(helpers[1].result.out) :
             /\ helpers[1].result.out[m] = exe.path
             /\ exe.path # ""
             /\ \A j \in 1..(m - 1) : helpers[1].result.out[j] = ""

Prompted == Count(stdout, PromptText) > 0

InRange(text) == 1 <= IntValue(text) /\ IntValue(text) <= Len(instances)

----------------------------------------------------------------------------
(* C1 *)

\* C1: the host launcher is started at most once, only after get_user_choice
\* returned a selection s; its argv is exactly [discovered executable,
\* "--launch", s] and s is an element of the list get_instances built; on
\* every other path (locator failure, empty list, non-integer input,
\* out-of-range input, cancellation) no launcher process is started.
C1_LaunchOnlySelection ==
    /\ Len(spawned) <= 1
    /\ spawned # <<>> =>
         /\ input = "line"
         /\ selected # None
         /\ \E n \in 1..Len(instances) : instances[n] = selected
         /\ ExeReturned /\ prism_exe # NonePath
         /\ Discovered(prism_exe)
         /\ spawned[1] = <<prism_exe.path, "--launch", selected>>
    /\ ( \/ prism_exe = NonePath
         \/ instances_dir = NonePath
         \/ instances = <<>>
         \/ input = "interrupt"
         \/ input = "line" /\ ~IntParses(line)
         \/ input = "line" /\ IntParses(line)
              /\ ~InRange(line) )
       => popens = <<>>

C1_Witness ==
    /\ pc = "done"
    /\ exitCode = 0
    /\ Len(spawned) = 1
    /\ spawned[1][3] = "Beta"

----------------------------------------------------------------------------
(* C2 *)

\* C2: for a list of length N >= 1 and an input line whose stripped text
\* parses as an integer k, get_user_choice returns a selection iff
\* 1 <= k <= N, and the selection is then L[k-1] (0-based); for k outside
\* [1, N] it returns no selection, prints no error message, and the run
\* ends without launching.
C2_SelectionIffInRange ==
    (input = "line" /\ IntParses(Strip(line))) =>
        LET k == IntValue(Strip(line))
            N == Len(instances)
        IN  /\ N >= 1
            /\ (selected # None) <=> (1 <= k /\ k <= N)
            /\ (1 <= k /\ k <= N) => selected = instances[k]
            /\ ~(1 <= k /\ k <= N) =>
                 /\ Last(stdout) = PromptText
                 /\ Count(stdout, InvalidInput) = 0
                 /\ popens = <<>>
                 /\ pc \in {"chosen", "done"}
                 /\ pc = "done" => exitCode = 0 /\ fault = "none"

C2_Witness ==
    /\ pc = "done"
    /\ input = "line"
    /\ line = <<" ", "2", " ">>
    /\ instances = <<"Alpha", "Beta">>
    /\ selected = "Beta"
    /\ spawned # <<>>

----------------------------------------------------------------------------
(* C3 *)

\* C3: when find_prism_exe or find_instances_dir returns nothing, the driver
\* prints the message of the failure it reports (the executable's when the
\* executable is missing, else the directory's) and terminates with exit
\* code 0 without calling get_instances, display_instances, get_user_choice
\* or launch_instance; no prompt is issued.
C3_LocatorFailureFatal ==
    (prism_exe = NonePath \/ instances_dir = NonePath) =>
        /\ pc \in {"inst_paths", "located", "done"}
        /\ iterdir = "none" /\ instances = <<>>
        /\ Count(stdout, "No instances found.") = 0
        /\ ~Prompted /\ input = "none" /\ selected = None
        /\ popens = <<>>
        /\ fault = "none"
        /\ pc = "done" =>
             /\ exitCode = 0
             /\ Len(stdout) = 3
             /\ Last(stdout) = IF prism_exe = NonePath THEN ExeError ELSE DirError

C3_Witness ==
    /\ pc = "done"
    /\ prism_exe # NonePath
    /\ instances_dir = NonePath
    /\ Last(stdout) = DirError

----------------------------------------------------------------------------
(* C4 *)

\* C4: when no well-known executable path exists, command resolution finds
\* nothing and flatpak itself is absent, the flatpak probe fails silently:
\* find_prism_exe returns no executable, the driver prints the executable
\* error and the selector exits with code 0 rather than crashing.
C4_FlatpakAbsentSilent ==
    (NoExeCandidateExists /\ WhichFoundNothing /\ HelperAbsent(FlatpakArgv)) =>
        /\ fault = "none"
        /\ prism_exe = NonePath
        /\ pc = "done" => exitCode = 0 /\ Last(stdout) = ExeError

----------------------------------------------------------------------------
(* C5 *)

\* C5: at end of input get_user_choice returns no selection; no child is
\* spawned and the run terminates normally with exit code 0.
C5_EofNoSelection ==
    input = "eof" =>
        /\ selected = None
        /\ popens = <<>>
        /\ fault = "none"
        /\ pc = "done" => exitCode = 0

----------------------------------------------------------------------------
(* C6 *)

\* C6: for an input line whose stripped text does not parse as an integer,
\* get_user_choice prints "Invalid input. Please enter a number." and
\* returns no selection; the run ends with no child spawned, no second
\* prompt and exit code 0.
C6_InvalidInput ==
    (input = "line" /\ ~IntParses(Strip(line))) =>
        /\ Last(stdout) = InvalidInput
        /\ Count(stdout, InvalidInput) = 1
        /\ selected = None
        /\ popens = <<>>
        /\ Count(stdout, PromptText) = 1
        /\ pc \in {"chosen", "done"}
        /\ pc = "done" => exitCode = 0 /\ fault = "none"

C6_Witness ==
    /\ pc = "done"
    /\ input = "line"
    /\ line = <<"a", "a", "a">>
    /\ Len(instances) = 2
    /\ Last(stdout) = InvalidInput

----------------------------------------------------------------------------
(* C7 *)

\* C7: an interrupt while get_user_choice is blocked on the read prints
\* "\nExiting..." and terminates the process with exit code 0, without
\* returning to the driver and without spawning a child.
C7_InterruptExits ==
    input = "interrupt" =>
        /\ pc = "done"
        /\ exitCode = 0
        /\ fault = "none"
        /\ Last(stdout) = "\nExiting..."
        /\ stdout[Len(stdout) - 1] = PromptText
        /\ selected = None
        /\ popens = <<>>

C7_Witness ==
    /\ input = "interrupt"
    /\ pc = "done"
    /\ Len(instances) >= 1

----------------------------------------------------------------------------
(* C8 *)

SpawnFailed == \E n \in 1..Len(popens) : popens[n].outcome # "ok"

\* C8: when spawning the host launcher fails, the failure is handled: the
\* selector exits on a normal path, not with an uncaught exception and a
\* non-zero exit code.
C8_SpawnFailureHandled ==
    SpawnFailed =>
        /\ fault = "none"
        /\ pc = "done" => exitCode = 0

----------------------------------------------------------------------------
(* C9 *)

ExeHits == {n \in 1..Len(ExePaths(platform)) : SawExists(ExePaths(platform)[n])}

\* find_prism_exe: the first existing well-known path wins and nothing after
\* it is consulted; `which` runs only when no well-known path exists and
\* flatpak only when `which` named nothing as well
ExeFirstExisting ==
    /\ \A n \in 1..Len(ExePaths(platform)) :
         Consulted(ExePaths(platform)[n]) =>
            \A m \in 1..(n - 1) : Consulted(ExePaths(platform)[m])
                                    /\ ~SawExists(ExePaths(platform)[m])
    /\ ExeHits # {} =>
         /\ ExeReturned
         /\ prism_exe = ExePaths(platform)[Min(ExeHits)]
         /\ helpers = <<>>
    /\ Len(helpers) >= 1 => NoExeCandidateExists /\ helpers[1].argv = WhichArgv(platform)
    /\ Len(helpers) >= 2 => WhichFoundNothing /\ helpers[2].argv = FlatpakArgv
    /\ Len(helpers) <= 2
    /\ (ExeReturned /\ ExeHits = {}) =>
         /\ NoExeCandidateExists
         /\ IF WhichFoundNothing
            THEN /\ Len(helpers) = 2
                 /\ prism_exe = NonePath \/ SawExists(prism_exe)
            ELSE /\ Len(helpers) = 1
                 /\ Discovered(prism_exe)

\* candidates of find_instances_dir that pass for "existing"
InstExisting == {n \in 1..Len(InstPaths) : SawExists(InstPaths[n])}
InstExistingDirs == {n \in 1..Len(InstPaths) : SawDir(InstPaths[n])}

InstFirstOf(hits) ==
    /\ \A n \in 1..Len(InstPaths) :
         Consulted(InstPaths[n]) =>
            \A m \in 1..(n - 1) : Consulted(InstPaths[m]) /\ m \notin hits
    /\ DirReturned =>
         IF hits # {}
         THEN instances_dir = InstPaths[Min(hits)]
         ELSE /\ instances_dir = NonePath
              /\ \A n \in 1..Len(InstPaths) : Consulted(InstPaths[n])

\* C9 as stated: find_prism_exe and find_instances_dir each return the first
\* existing candidate of their probe list; earlier candidates that do not
\* exist do not change the result and later ones are not consulted; the
\* command-resolution and flatpak stages run only when every earlier stage
\* yielded nothing.
C9_FirstExistingCandidate ==
    /\ ExeFirstExisting
    /\ InstFirstOf(InstExisting)

\* C9 amended: as above, except that find_instances_dir returns the first
\* candidate that exists and is a directory; an earlier candidate that
\* exists without being a directory is passed over like a missing one.
C9_FirstExistingDirectory ==
    /\ ExeFirstExisting
    /\ InstFirstOf(InstExistingDirs)

C9_Witness ==
    /\ pc = "located"
    /\ prism_exe = ExePaths(platform)[2]
    /\ SawExists(InstPaths[1]) /\ ~SawDir(InstPaths[1])
    /\ ~Consulted(InstPaths[2]) \/ ~SawExists(InstPaths[2])
    /\ instances_dir = InstPaths[3]
    /\ ~Consulted(InstPaths[4])

----------------------------------------------------------------------------
(* C10 *)

\* C10: when the instances directory cannot be read as get_instances runs,
\* the run ends without prompting and without spawning a child, as a
\* handled error rather than an uncaught exception.
C10_UnreadableDirHandled ==
    iterdir \in {"PermissionError", "FileNotFoundError"} =>
        /\ ~Prompted
        /\ popens = <<>>
        /\ fault = "none"
        /\ pc = "done" => exitCode = 0

====
